---- MODULE Spec2Model ----
(***************************************************************************)
(* Model of sitnikov_module.py: the initial-condition grid builder         *)
(* (initial_grid_zv), the trajectory integrator (sitnikov, over            *)
(* ode_function) and the batch solver (solution).                          *)
(*                                                                         *)
(* Numbers.  Every real quantity is held as an integer count of HALVES     *)
(* (the value 0.5 is 1, the value 3 is 6).  Halves are exact in IEEE       *)
(* doubles, so np.arange's start + k*step and its length                   *)
(* ceil((stop - start)/step) are computed here exactly as numpy computes   *)
(* them on such inputs.  The integer dtype of an np.arange built from      *)
(* Python ints is tracked separately (int_args), because np.full_like      *)
(* casts its fill value to the dtype of the array it is given.  The        *)
(* eccentricity alone is held in quarters.  The integration itself         *)
(* (scipy's odeint) is library code: its result is stood in for by a       *)
(* deterministic fixed-point step over ode_function, and its failure,      *)
(* which depends on the solver's internals, is a nondeterministic choice.  *)
(* The model calls sitnikov with period*N > 0 and a step >= 0, so a        *)
(* successful np.arange there is never empty.                              *)
(***************************************************************************)
EXTENDS Integers, Sequences, FiniteSets

VARIABLES
    pc,          \* position of the caller: see the actions
    exc,         \* the exception that ended the call, or "none"
    \* ---- initial_grid_zv: its arguments and its return value
    z_start, z_stop, v_start, v_stop, step, v_dim,
    int_args,    \* TRUE: z_start, z_stop, step are passed as Python ints
    grid_z0_v0,
    \* ---- solution / sitnikov: arguments, locals and return value
    y0, a, e, period, N,
    idx,         \* loop variable of solution
    y,           \* the list y of solution: one trajectory per finished row
    E,           \* the sample points built by sitnikov for the current row
    y_point,     \* the output array odeint fills for the current row
    res,         \* the value solution returns
    failed,      \* rows on which odeint reported failure (a warning only)
    integrated,  \* rows passed to sitnikov so far, in call order
    ev           \* the last evaluation of ode_function: <<r, z^2 + r^2>>

gridVars == <<z_start, z_stop, v_start, v_stop, v_dim, int_args, grid_z0_v0>>
solVars == <<y0, a, e, period, N, idx, y, E, y_point, res, failed, integrated, ev>>
vars == <<pc, exc, step, gridVars, solVars>>

(***************************************************************************)
(* Bounds of the model (in halves where they bound a real quantity).       *)
(***************************************************************************)
MaxZ == 6
MaxN == 2
MaxFail == 1

\* "Not a number", the value of the float division 0.0/0.0 (numpy warns and
\* goes on); it propagates through every arithmetic operation.
NaN == -999999

(***************************************************************************)
(* numpy helpers                                                           *)
(***************************************************************************)
CeilDiv(n, d) == (n + d - 1) \div d

ArangeLenFloor(start, stop, stp) ==
    IF stp > 0
    THEN IF stop > start THEN (stop - start) \div stp ELSE 0
    ELSE IF stop < start THEN (start - stop) \div (-stp) ELSE 0

\* len(np.arange(start, stop, step)) for step # 0:
\* max(0, ceil((stop - start) / step)).
ArangeLen(start, stop, stp) ==
    IF stp > 0
    THEN IF stop > start THEN CeilDiv(stop - start, stp) ELSE 0
    ELSE IF stop < start THEN CeilDiv(start - stop, -stp) ELSE 0

ArangeInclusive(start, stop, stp) ==
    [k \in 1..(IF stp > 0
               THEN IF stop >= start THEN ((stop - start) \div stp) + 1 ELSE 0
               ELSE IF stop <= start THEN ((start - stop) \div (-stp)) + 1 ELSE 0)
        |-> start + (k - 1) * stp]

\* np.arange(start, stop, step) for step # 0: start + k*step, k = 0..len-1.
Arange(start, stop, stp) ==
    [k \in 1..ArangeLen(start, stop, stp) |-> start + (k - 1) * stp]

\* The cast of a float to an integer dtype: truncation toward zero.
TruncToInt(h) == IF h >= 0 THEN (h \div 2) * 2 ELSE -(((-h) \div 2) * 2)

\* np.full_like(z0, fill): an array of z0's shape AND dtype; with an integer
\* z0 the fill value is cast to an integer.
FullLike(z0, isInt, fill) ==
    [k \in 1..Len(z0) |-> IF isInt THEN TruncToInt(fill) ELSE fill]

RECURSIVE Concat(_)
Concat(ss) == IF ss = <<>> THEN <<>> ELSE Head(ss) \o Concat(Tail(ss))

ReshapeColumnMajor(nested, rows) ==
    LET nz == Len(nested)
    IN  [k \in 1..rows |-> nested[((k - 1) % nz) + 1][((k - 1) \div nz) + 1]]

\* np.reshape(np.array(nested), (rows, 2)) on a nested list of pairs: C order,
\* the last index of the nested list varies fastest.  The element count
\* always fits in this program (rows is the element count / 2), also when a
\* dimension is empty.
Reshape(nested, rows) == Concat(nested)

(***************************************************************************)
(* initial_grid_zv                                                         *)
(***************************************************************************)
FixedVelocity(vd, vs, ve) == vd \/ vs = ve

\* Lines 68-71: the velocity values v0.
GridV0(z0, isInt, vd, vs, ve, stp) ==
    IF FixedVelocity(vd, vs, ve)
    THEN FullLike(z0, isInt, vs)
    ELSE Arange(vs, ve, stp)

\* Lines 67-78, for step # 0.
initial_grid_zv(zs, ze, vs, ve, stp, vd, isInt) ==
    LET z0 == Arange(zs, ze, stp)
        v0 == GridV0(z0, isInt, vd, vs, ve, stp)
        nested == [i \in 1..Len(z0) |-> [j \in 1..Len(v0) |-> <<z0[i], v0[j]>>]]
    IN  Reshape(nested, Len(z0) * Len(v0))

(***************************************************************************)
(* Orbital geometry and the equation of motion, in fixed point.            *)
(* a, E, z, v are in halves and the eccentricity e in QUARTERS; r is       *)
(* returned in SIXTEENTHS, so that                                         *)
(* a*(1 - e*cos(E)) = (a/2)*(1 - (e/4)*(c/2)) = a*(8 - e*c)/16 is exact.   *)
(***************************************************************************)
\* 2*cos(k/2) rounded to the nearest integer, k = 0..40 halves of a radian.
CosTable ==
    <<2, 2, 1, 0, -1, -2, -2, -2, -1, 0, 1, 1, 2, 2, 2, 1, 0, -1, -2, -2, -2,
      -1, 0, 1, 2, 2, 2, 1, 0, -1, -2, -2, -2, -1, -1, 0, 1, 2, 2, 2, 1>>

\* np.cos(E) in halves; cos is even, and the sample points of the model stay
\* inside the table.
Cos(Eh) == CosTable[(IF Eh >= 0 THEN Eh ELSE -Eh) + 1]

barycenter_distance_slip(aa, ee, Eh) == aa * (4 - ee) * Cos(Eh)

\* Line 22: r = a*(1 - e*cos(E)), in sixteenths.
barycenter_distance_xy(aa, ee, Eh) == aa * (8 - ee * Cos(Eh))

RECURSIVE IsqrtIn(_, _, _)
IsqrtIn(n, lo, hi) ==
    IF lo >= hi THEN lo
    ELSE LET mid == (lo + hi + 1) \div 2
         IN  IF mid * mid <= n THEN IsqrtIn(n, mid, hi)
             ELSE IsqrtIn(n, lo, mid - 1)
\* floor(sqrt(n)) for n >= 0, by bisection
Isqrt(n) == IsqrtIn(n, 0, IF n < 40000 THEN n ELSE 40000)

\* Line 40's radicand z^2 + r^2, in 256ths (z is 8*zh sixteenths).
Radicand(r16, zh) == (8 * zh) * (8 * zh) + r16 * r16

\* Line 31: dz/dE = 2*r*v, in halves (rounded down).
derivative_z(r16, vh) == IF vh = NaN THEN NaN ELSE (r16 * vh) \div 8

\* Line 40: dv/dE = -2*r*z / sqrt(z^2 + r^2)^3, in halves (rounded down).  With
\* z^2 + r^2 = 0 the numerator is 0 too and the float division gives NaN.
derivative_v(r16, zh) ==
    IF zh = NaN THEN NaN
    ELSE LET w == Radicand(r16, zh)
         IN  IF w = 0 THEN NaN
             ELSE (-64 * r16 * (8 * zh)) \div (w * Isqrt(w))

\* Lines 43-49.
ode_function(yy, Eh, aa, ee) ==
    LET r == barycenter_distance_xy(aa, ee, Eh)
    IN  <<derivative_z(r, yy[2]), derivative_v(r, yy[1])>>

\* What one evaluation of ode_function computes on the way: r and the
\* radicand of derivative_v (NaN when the state is already NaN).
Evaluation(yy, Eh, aa, ee) ==
    LET r == barycenter_distance_xy(aa, ee, Eh)
    IN  <<r, IF yy[1] = NaN THEN NaN ELSE Radicand(r, yy[1])>>

\* x + (h * d)/2 in halves, NaN propagating.
Advance(x, h, d) == IF x = NaN \/ d = NaN THEN NaN ELSE x + ((h * d) \div 2)

\* Line 62, one sample point to the next.  odeint (LSODA) is library code; its
\* advance from E_k to E_k+1 is stood in for by one explicit Euler step on
\* ode_function: a deterministic function of the state, E, a and e.
OdeintStep(yy, Ek, Enext, aa, ee) ==
    LET d == ode_function(yy, Ek, aa, ee)
    IN  <<Advance(yy[1], Enext - Ek, d[1]), Advance(yy[2], Enext - Ek, d[2])>>

RECURSIVE OdeintFrom(_, _, _, _)
OdeintFrom(out, Es, aa, ee) ==
    IF Len(out) >= Len(Es) THEN out
    ELSE OdeintFrom(Append(out, OdeintStep(out[Len(out)], Es[Len(out)],
                                           Es[Len(out) + 1], aa, ee)),
                    Es, aa, ee)

\* Line 62: odeint(ode_function, y0, E, args=(a, e)) when the solver succeeds,
\* for a non-empty E: one row per sample point, the first row a copy of y0.
odeint(yrow, Es, aa, ee) == OdeintFrom(<<yrow>>, Es, aa, ee)

\* Lines 61-63, for step # 0: the pair (E, res).
sitnikov(yrow, aa, ee, per, NN, stp) ==
    LET Es == Arange(0, per * NN, stp)
    IN  <<Es, odeint(yrow, Es, aa, ee)>>

RowArgFirst(grid, i) == grid[1]

\* Line 84: y0[idx], idx counted from 0.
RowArg(grid, i) == grid[i + 1]

\* Lines 87-88: np.array(y) has shape (rows, S, 2) and is reshaped to
\* (rows*S, 2); used for a non-empty list y.
AggregatedResult(yl) == Reshape(yl, Len(yl) * Len(yl[1]))

(***************************************************************************)
(* The inputs the specifications draw from (halves).                       *)
(***************************************************************************)
\* initial_grid_zv
ZStarts == {0, 1, 2}
ZStops == 0..MaxZ
VStarts == {-3, 0, 1, 2}
VStops == {0, 1, 2, 5}
GridSteps == {-2, 0, 1, 2}

\* solution: the grids are results of initial_grid_zv (float arguments, step
\* 1.0): zero rows, one row, a Cartesian grid, and the fixed-velocity grids.
Grids ==
    {initial_grid_zv(zs, ze, 1, ve, 2, FALSE, FALSE) :
        zs \in {-2, 0}, ze \in {0, 2}, ve \in {1, 5}}
SemiMajorAxes == {0, 1, 2}       \* 0 is not a valid semi-major axis
Eccentricities == {-1, 0, 3, 4}      \* quarters; -1 and 4 (e = 1.0) are
                                     \* outside [0, 1)
Periods == {2, 3}
Steps == {0, 2, 3}               \* 0 is not a valid step
\* What the part of odeint's output array that it never wrote may hold
\* (the array is allocated uninitialised).
Uninitialised == {<<0, 0>>, <<1, -1>>}

(***************************************************************************)
(* Specification SpecGrid: one call of initial_grid_zv.                    *)
(***************************************************************************)
SolverIdle ==
    /\ y0 = <<>> /\ a = 0 /\ e = 0 /\ period = 0 /\ N = 0 /\ idx = 0
    /\ y = <<>> /\ E = <<>> /\ y_point = <<>> /\ res = <<>> /\ failed = {}
    /\ integrated = <<>> /\ ev = <<>>

InitGrid ==
    /\ pc = "call" /\ exc = "none"
    /\ z_start \in ZStarts /\ z_stop \in ZStops
    /\ v_start \in VStarts /\ v_stop \in VStops
    /\ step \in GridSteps /\ v_dim \in BOOLEAN
    /\ int_args \in BOOLEAN
    \* Python ints are whole numbers
    /\ int_args => z_start % 2 = 0 /\ z_stop % 2 = 0 /\ step % 2 = 0
    /\ grid_z0_v0 = <<>>
    /\ SolverIdle

\* Lines 65-78.  np.arange raises ZeroDivisionError for a zero step (line 67).
InitialGridZv ==
    /\ pc = "call"
    /\ IF step = 0
       THEN /\ pc' = "raised"
            /\ exc' = "ZeroDivisionError"
            /\ UNCHANGED grid_z0_v0
       ELSE /\ pc' = "returned"
            /\ grid_z0_v0' = initial_grid_zv(z_start, z_stop, v_start, v_stop,
                                             step, v_dim, int_args)
            /\ UNCHANGED exc
    /\ UNCHANGED <<z_start, z_stop, v_start, v_stop, step, v_dim, int_args>>
    /\ UNCHANGED solVars

NextGrid == InitialGridZv

SpecGrid == InitGrid /\ [][NextGrid]_vars

(***************************************************************************)
(* Specification Spec: one call of solution, step by step.                 *)
(***************************************************************************)
Init ==
    /\ pc = "loop" /\ exc = "none"
    /\ y0 \in Grids
    /\ a \in SemiMajorAxes /\ e \in Eccentricities
    /\ period \in Periods /\ N \in 1..MaxN /\ step \in Steps
    /\ idx = 0 /\ y = <<>>               \* line 82
    /\ E = <<>> /\ y_point = <<>> /\ res = <<>>
    /\ failed = {} /\ integrated = <<>> /\ ev = <<>>
    /\ z_start = 0 /\ z_stop = 0 /\ v_start = 0 /\ v_stop = 0
    /\ v_dim = FALSE /\ int_args = FALSE /\ grid_z0_v0 = <<>>

\* Lines 83-84 and 61: the loop passes row idx to sitnikov, which builds E; a
\* zero step makes np.arange raise, and nothing catches it.
SitnikovCall ==
    /\ pc = "loop" /\ idx < Len(y0)
    /\ integrated' = Append(integrated, idx)
    /\ IF step = 0
       THEN /\ pc' = "raised"
            /\ exc' = "ZeroDivisionError"
            /\ UNCHANGED <<E, y_point>>
       ELSE /\ pc' = "odeint"
            /\ E' = Arange(0, period * N, step)
            /\ y_point' = <<RowArg(y0, idx)>>
            /\ UNCHANGED exc
    /\ UNCHANGED <<y0, a, e, period, N, step, idx, y, res, failed, ev>>
    /\ UNCHANGED gridVars

\* Line 62: odeint reaches the next sample point, evaluating ode_function.
OdeintAdvance ==
    /\ pc = "odeint" /\ Len(y_point) < Len(E)
    /\ LET k == Len(y_point)
       IN  /\ y_point' = Append(y_point,
                                OdeintStep(y_point[k], E[k], E[k + 1], a, e))
           /\ ev' = Evaluation(y_point[k], E[k], a, e)
    /\ UNCHANGED <<pc, exc, y0, a, e, period, N, step, idx, y, E, res, failed,
                   integrated>>
    /\ UNCHANGED gridVars

\* Line 62: the solver gives up before the next sample point (no convergence,
\* too much work).  odeint only warns: it returns its output array, whose
\* rows from this point on were never written.
OdeintFail ==
    /\ pc = "odeint" /\ Len(y_point) < Len(E)
    /\ Cardinality(failed) < MaxFail
    /\ \E g \in Uninitialised :
          y_point' = [k \in 1..Len(E) |->
                         IF k <= Len(y_point) THEN y_point[k] ELSE g]
    /\ failed' = failed \cup {idx}
    /\ UNCHANGED <<pc, exc, y0, a, e, period, N, step, idx, y, E, res,
                   integrated, ev>>
    /\ UNCHANGED gridVars

\* Lines 63 and 85: sitnikov returns (E, res); solution appends res to y.
SitnikovReturn ==
    /\ pc = "odeint" /\ Len(y_point) = Len(E)
    /\ y' = Append(y, y_point)
    /\ idx' = idx + 1
    /\ pc' = "loop"
    /\ UNCHANGED <<exc, y0, a, e, period, N, step, E, y_point, res, failed,
                   integrated, ev>>
    /\ UNCHANGED gridVars

\* Lines 87-89 after the loop.  With an empty list np.array(y) has shape (0,)
\* and res.shape[1] raises IndexError.
SolutionReturn ==
    /\ pc = "loop" /\ idx = Len(y0)
    /\ IF y = <<>>
       THEN /\ pc' = "raised"
            /\ exc' = "IndexError"
            /\ UNCHANGED res
       ELSE /\ pc' = "done"
            /\ res' = AggregatedResult(y)
            /\ UNCHANGED exc
    /\ UNCHANGED <<y0, a, e, period, N, step, idx, y, E, y_point, failed,
                   integrated, ev>>
    /\ UNCHANGED gridVars

Next ==
    \/ SitnikovCall
    \/ OdeintAdvance
    \/ OdeintFail
    \/ SitnikovReturn
    \/ SolutionReturn

Spec == Init /\ [][Next]_vars

(***************************************************************************)
(* The properties.  The sequences the specification text speaks of are     *)
(* defined here from its words, not through Arange.                        *)
(***************************************************************************)
Abs(n) == IF n >= 0 THEN n ELSE -n

\* The orbital elements the specification text allows: a > 0 and e in [0, 1)
\* (e in quarters).
ValidOrbit(aa, ee) == aa > 0 /\ ee >= 0 /\ ee < 4

\* The indices k >= 0 whose value start + k*stp lies in the half-open range
\* from start (included) to stop (excluded), walked in the direction of stp.
HalfOpenIndices(start, stop, stp) ==
    {k \in 0..Abs(stop - start) :
        IF stp > 0 THEN start + k * stp < stop ELSE start + k * stp > stop}

HalfOpen(start, stop, stp) ==
    [k \in 1..Cardinality(HalfOpenIndices(start, stop, stp)) |->
        start + (k - 1) * stp]

ZValues == HalfOpen(z_start, z_stop, step)
VValues == HalfOpen(v_start, v_stop, step)
FixedMode == v_dim \/ v_start = v_stop

\* C1: in fixed-velocity mode the returned grid has exactly one row per z
\* value of the half-open z sequence (len(z-values) rows).
C1_FixedRowCount ==
    (pc = "returned" /\ step > 0 /\ FixedMode) =>
        Len(grid_z0_v0) = Len(ZValues)

\* C2: in fixed-velocity mode every row's velocity is v_start exactly, and
\* every z value of the z sequence is the position of some row.
C2_FixedVelocityPairs ==
    (pc = "returned" /\ step > 0 /\ FixedMode) =>
        /\ \A k \in 1..Len(grid_z0_v0) : grid_z0_v0[k][2] = v_start
        /\ \A i \in 1..Len(ZValues) :
              \E k \in 1..Len(grid_z0_v0) : grid_z0_v0[k][1] = ZValues[i]

\* C3: outside fixed-velocity mode the grid is the Cartesian product of the z
\* sequence and the v sequence, len(z)*len(v) rows, in row-major order: row
\* i*len(v) + j is (z_i, v_j).
C3_CartesianRowMajor ==
    (pc = "returned" /\ ~FixedMode) =>
        /\ Len(grid_z0_v0) = Len(ZValues) * Len(VValues)
        /\ \A i \in 1..Len(ZValues) : \A j \in 1..Len(VValues) :
              grid_z0_v0[(i - 1) * Len(VValues) + j] = <<ZValues[i], VValues[j]>>

C3_Witness ==
    /\ pc = "returned" /\ ~FixedMode
    /\ Len(ZValues) >= 2 /\ Len(VValues) >= 2
    /\ grid_z0_v0[2] = <<z_start, v_start + step>>
    /\ grid_z0_v0[Len(VValues) + 1] = <<z_start + step, v_start>>

\* C5: with an empty range (z_start = z_stop, or an empty v range outside the
\* fixed-velocity case) and a non-zero step, initial_grid_zv returns normally
\* a grid of zero rows and raises nothing.
C5_EmptyRangeEmptyGrid ==
    (/\ pc # "call"
     /\ step # 0
     /\ \/ z_start = z_stop
        \/ Len(ZValues) = 0
        \/ (~FixedMode /\ Len(VValues) = 0))
    => (pc = "returned" /\ exc = "none" /\ grid_z0_v0 = <<>>)

C5_Witness ==
    /\ pc = "returned" /\ exc = "none"
    /\ ~FixedMode /\ Len(VValues) = 0 /\ Len(ZValues) >= 2
    /\ grid_z0_v0 = <<>>

\* ---- solution and sitnikov (specification Spec)
Samples == Cardinality(HalfOpenIndices(0, period * N, step))
ValidParameters == ValidOrbit(a, e) /\ step > 0

\* C4: for a grid with at least one row, solution returns rows x S states;
\* segment i is the state sequence sitnikov returned for row i, which (the
\* solver having succeeded on the row) is what sitnikov gives for row i
\* alone; the rows are integrated once each, in grid order.
C4_Decomposable ==
    (pc = "done" /\ Len(y0) >= 1) =>
        /\ Len(res) = Len(y0) * Samples
        /\ integrated = [i \in 1..Len(y0) |-> i - 1]
        /\ \A i \in 1..Len(y0) :
              LET segment == [k \in 1..Samples |-> res[(i - 1) * Samples + k]]
              IN  /\ segment = y[i]
                  /\ (i - 1) \notin failed =>
                        segment = sitnikov(y0[i], a, e, period, N, step)[2]

C4_Witness ==
    /\ ValidParameters
    /\ pc = "done" /\ Len(y0) >= 2 /\ Samples >= 2 /\ failed = {}
    /\ y0[1] # y0[2]
    /\ res[Samples + 1] = y0[2]
    /\ res[Samples] # res[2 * Samples]

\* C6: invalid parameters (a <= 0, e outside [0,1), step <= 0) are rejected
\* at entry, before any numerical work: odeint is never entered, no
\* trajectory is produced and no result is returned for them.
C6_InvalidRejected ==
    ~ValidParameters =>
        /\ pc \notin {"odeint", "done"}
        /\ y = <<>> /\ ev = <<>> /\ res = <<>>

\* C7: when the integration of a row fails, sitnikov returns no trajectory
\* for it, solution integrates no later row and returns no result, and the
\* error surfaced is an IntegrationError.
C7_AbortOnFailure ==
    ValidParameters => \A i \in failed :
        /\ Len(y) <= i
        /\ Len(integrated) <= i + 1
        /\ pc # "done"
        /\ pc = "raised" => exc = "IntegrationError"

\* C8: sitnikov returns E with E_k = k*step for exactly the k >= 0 with
\* k*step < period*N, and a state sequence of the same length whose first
\* state is the initial condition.
C8_SampleSchedule ==
    (pc \in {"loop", "done"} /\ Len(y) >= 1) =>
        /\ E = [k \in 1..Samples |-> (k - 1) * step]
        /\ \A k \in 1..Len(E) : E[k] < period * N
        /\ Len(E) * step >= period * N
        /\ \A i \in 1..Len(y) : Len(y[i]) = Len(E) /\ y[i][1] = y0[i]

C8_Witness ==
    /\ ValidParameters
    /\ pc = "loop" /\ Len(y) >= 1
    /\ Len(E) >= 3 /\ Len(E) * step = period * N
    /\ y[Len(y)][1] = y0[Len(y)] /\ y[Len(y)][2] # y0[Len(y)]

\* C9: for a > 0 and e in [0,1) the barycenter distance is strictly positive
\* at every E, so z^2 + r^2 is strictly positive in every evaluation of
\* ode_function, whatever the state.
C9_PositiveDistance ==
    ValidOrbit(a, e) =>
        \* at entry: the function itself, at every tabulated E and small z
        /\ (pc = "loop" /\ idx = 0) =>
              \A Eh \in 0..(Len(CosTable) - 1) :
                  /\ barycenter_distance_xy(a, e, Eh) > 0
                  /\ \A zh \in -4..4 :
                        Radicand(barycenter_distance_xy(a, e, Eh), zh) > 0
        \* every evaluation odeint makes
        /\ ev # <<>> => (ev[1] > 0 /\ ev[2] > 0)

C9_Witness ==
    /\ ValidOrbit(a, e) /\ e = 3
    /\ ev # <<>> /\ ev[2] = ev[1] * ev[1]
    /\ pc = "odeint" /\ Len(y_point) >= 2

\* C10: for a grid of zero rows solution returns normally an aggregated
\* sequence of zero states and raises nothing.
C10_EmptyGridEmptyResult ==
    (ValidParameters /\ y0 = <<>> /\ pc # "loop") => (pc = "done" /\ exc = "none" /\ res = <<>>)

====
